---- MODULE Spec2Model ----
(***************************************************************************)
(* Fredlang front end: the token model (lexer/tokens.go) and the scanner   *)
(* (lexer/lexer.go).  Runes are one-character strings, the source is a     *)
(* sequence of runes ([]rune), lexemes are strings built rune by rune.     *)
(* Indices are 0-based as in the Go code; At(L, i) reads l.source[i].      *)
(* Then the parser with the error list (package ast) and the evaluator of  *)
(* the syntax tree, each run step by step on a call stack.                 *)
(***************************************************************************)
EXTENDS Integers, Sequences, FiniteSets, TLC

VARIABLES l, pc, q, p, frames, ctl

vars == <<l, pc, q, p, frames, ctl>>

(***************************************************************************)
(* Bounds of the checked input space.                                      *)
(***************************************************************************)
MaxLen == 4
MaxLongLen == 5
MaxFairLen == 3
MaxTokens == 3
MaxLongTokens == 5
MaxNumber == 1
MaxDecimals == 6

(***************************************************************************)
(* Token kinds (lexer/tokens.go:5-46) and Number (lexer/lexer.go:54).      *)
(***************************************************************************)
LParen == "LParen"
RParen == "RParen"
LBrace == "LBrace"
RBrace == "RBrace"
Comma == "Comma"
Dot == "Dot"
Minus == "Minus"
Plus == "Plus"
Semicolon == "Semicolon"
Slash == "Slash"
Star == "Star"
Bang == "Bang"
BangEq == "BangEq"
Eq == "Eq"
DoubleEq == "DoubleEq"
Greater == "Greater"
GreaterEq == "GreaterEq"
Less == "Less"
LessEq == "LessEq"
String == "String"
Integer == "Integer"
Float == "Float"
Identifier == "Identifier"
EOF == "EOF"
Number == "Number"

\* The empty TokenKind returned with found = false.
NoKind == ""

\* The zero rune returned by lookahead at the end of the source.
NUL == "NUL"

\* The kinds of the const block; Number is the kind ScanTokens gives numerals.
TokenKinds ==
  { LParen, RParen, LBrace, RBrace, Comma, Dot, Minus, Plus, Semicolon, Slash,
    Star, Bang, BangEq, Eq, DoubleEq, Greater, GreaterEq, Less, LessEq,
    String, Integer, Float, Identifier, Number,
    "And", "Class", "Else", "False", "Function", "For", "If", "Null", "Or",
    "Print", "Return", "Super", "This", "True", "Var", "While", EOF }

\* lexemeToKindMap as a set of <<lexeme, kind>> entries: punctuation and
\* operators (lines 49-67), then keywords (lines 68-83).
operatorEntries ==
  { <<"(", LParen>>, <<")", RParen>>, <<"{", LBrace>>, <<"}", RBrace>>,
    <<",", Comma>>, <<".", Dot>>, <<"-", Minus>>, <<"+", Plus>>,
    <<";", Semicolon>>, <<"/", Slash>>, <<"*", Star>>, <<"!", Bang>>,
    <<"!=", BangEq>>, <<"=", Eq>>, <<"==", DoubleEq>>, <<">", Greater>>,
    <<">=", GreaterEq>>, <<"<", Less>>, <<"<=", LessEq>> }

keywordEntries ==
  { <<"and", "And">>, <<"class", "Class">>, <<"else", "Else">>,
    <<"false", "False">>, <<"function", "Function">>, <<"for", "For">>,
    <<"if", "If">>, <<"null", "Null">>, <<"or", "Or">>,
    <<"print", "Print">>, <<"return", "Return">>, <<"super", "Super">>,
    <<"this", "This">>, <<"true", "True">>, <<"var", "Var">>,
    <<"while", "While">> }

\* A table in which "for" was given the kind of "function".
lexemeToKindMap_forAsFunction ==
  operatorEntries \cup (keywordEntries \ {<<"for", "For">>}) \cup {<<"for", "Function">>}

lexemeToKindMap == operatorEntries \cup keywordEntries

\* The inverted map: the lexemes whose entry gives the kind.  The Go map
\* keeps one of them (the last written, in unspecified iteration order).
kindToLexemeMap(kind) == { e[1] : e \in { x \in lexemeToKindMap : x[2] = kind } }

\* tokenKindFromKeyword returns (kind, found).
tokenKindFromKeyword(keyword) ==
  LET hits == { e \in lexemeToKindMap : e[1] = keyword }
  IN  IF hits = {} THEN [kind |-> NoKind, found |-> FALSE]
      ELSE [kind |-> (CHOOSE e \in hits : TRUE)[2], found |-> TRUE]

\* TokenKind.Lexeme: the lexeme the inverse map holds for the kind, "" when
\* it holds none.
Lexeme(kind) ==
  IF kindToLexemeMap(kind) = {} THEN ""
  ELSE CHOOSE lexeme \in kindToLexemeMap(kind) : TRUE

\* TokenKind.Rune: the rune of a one-character lexeme, else the zero rune.
Rune(kind) ==
  LET lexeme == Lexeme(kind)
  IN  IF Len(lexeme) # 1 THEN NUL ELSE lexeme

NewToken(kind, lexeme, line) == [kind |-> kind, lexeme |-> lexeme, line |-> line]

(***************************************************************************)
(* unicode.IsSpace / IsNumber / IsLetter on the runes of the model.        *)
(***************************************************************************)
IsSpace(ch) == ch \in {" ", "\n", "\t", "\r"}
IsNumber(ch) == ch \in {"0", "1", "2", "3", "4", "5", "6", "7", "8", "9"}
IsLetter(ch) ==
  ch \in {"a", "b", "c", "d", "e", "f", "g", "h", "i", "j", "k", "l", "m",
          "n", "o", "p", "q", "r", "s", "t", "u", "v", "w", "x", "y", "z"}

(***************************************************************************)
(* Lexer (lexer/lexer.go).  L is the Lexer struct.                         *)
(***************************************************************************)
New(source) ==
  [source |-> source, tokens |-> <<>>, errors |-> <<>>,
   start |-> 0, current |-> 0, line |-> 1]

At(L, i) == L.source[i + 1]

isEnd(L) == L.current >= Len(L.source)

\* advance returns l.source[l.current], which is peek of the result.
advance(L) == [L EXCEPT !.start = L.current, !.current = L.current + 1]

peek(L) == At(L, L.start)

lookahead(L) == IF isEnd(L) THEN NUL ELSE At(L, L.current)

\* A lookaheadBy that counts from the cursor instead of the last consumed rune.
lookaheadBy_fromCurrent(L, skip) ==
  LET nextIdx == L.current + skip
  IN  IF nextIdx >= Len(L.source) THEN NUL ELSE At(L, nextIdx)

lookaheadBy(L, skip) ==
  LET nextIdx == L.start + skip
  IN  IF nextIdx >= Len(L.source) THEN NUL ELSE At(L, nextIdx)

\* match: the boolean result, and the lexer after the call.
match(L, target) == lookahead(L) = target

\* A match that reports the hit without consuming the rune.
afterMatch_noAdvance(L, target) == L

afterMatch(L, target) == IF match(L, target) THEN advance(L) ELSE L

increaseLine(L) == [L EXCEPT !.line = L.line + 1]

RECURSIVE consumeSpacesLoop(_)
consumeSpacesLoop(L) ==
  IF isEnd(L) THEN L
  ELSE LET ch == lookahead(L)
       IN  IF ~IsSpace(ch) THEN L
           ELSE consumeSpacesLoop(advance(IF ch = "\n" THEN increaseLine(L) ELSE L))

\* A consumeSpaces that forgets the rune the iteration started on.
consumeSpaces_skipFirst(L) == consumeSpacesLoop(L)

consumeSpaces(L) ==
  consumeSpacesLoop(IF peek(L) = "\n" THEN increaseLine(L) ELSE L)

\* parseString: [l, lexeme, err]; err is "" for a nil error.
RECURSIVE parseStringLoop(_, _)
parseStringLoop(L, lexeme) ==
  IF isEnd(L) THEN [l |-> L, lexeme |-> "", err |-> "unterminated string"]
  ELSE LET L2 == advance(L)
           ch == peek(L2)
       IN  IF ch = "\"" THEN [l |-> L2, lexeme |-> lexeme, err |-> ""]
           ELSE parseStringLoop(L2, lexeme \o ch)

parseString(L) == parseStringLoop(L, "")

\* parseNumber: [l, lexeme].
RECURSIVE parseNumberLoop(_, _, _)
parseNumberLoop(L, lexeme, isFloat) ==
  IF isEnd(L) THEN [l |-> L, lexeme |-> lexeme]
  ELSE LET ch == lookahead(L)
       IN  IF ch = "." /\ ~isFloat
           THEN IF ~IsNumber(lookaheadBy(L, 2))
                THEN [l |-> L, lexeme |-> lexeme]
                ELSE parseNumberLoop(advance(L), lexeme \o ".", TRUE)
           ELSE IF ~IsNumber(ch)
                THEN [l |-> L, lexeme |-> lexeme]
                ELSE parseNumberLoop(advance(L), lexeme \o ch, isFloat)

parseNumber(L) == parseNumberLoop(L, peek(L), FALSE)

\* A run that stops at digits: letters and '_' only.
RECURSIVE identifierLoop_noDigits(_, _)
identifierLoop_noDigits(L, sb) ==
  IF isEnd(L) THEN [l |-> L, lexeme |-> sb]
  ELSE LET ch == lookahead(L)
       IN  IF ~IsLetter(ch) /\ ch # "_"
           THEN [l |-> L, lexeme |-> sb]
           ELSE identifierLoop_noDigits(advance(L), sb \o ch)

\* parseKeywordOrIdentifier: [l, lexeme, kind].
RECURSIVE identifierLoop(_, _)
identifierLoop(L, sb) ==
  IF isEnd(L) THEN [l |-> L, lexeme |-> sb]
  ELSE LET ch == lookahead(L)
       IN  IF ~IsLetter(ch) /\ ~IsNumber(ch) /\ ch # "_"
           THEN [l |-> L, lexeme |-> sb]
           ELSE identifierLoop(advance(L), sb \o ch)

parseKeywordOrIdentifier(L) ==
  LET r == identifierLoop(L, peek(L))
      k == tokenKindFromKeyword(r.lexeme)
  IN  [l |-> r.l, lexeme |-> r.lexeme,
       kind |-> IF k.found THEN k.kind ELSE Identifier]

appendToken(L, token) == [L EXCEPT !.tokens = Append(L.tokens, token)]
appendError(L, message) == [L EXCEPT !.errors = Append(L.errors, message)]

\* The kinds the switch of ScanTokens dispatches on without lookahead.
SingleKinds ==
  {LParen, RParen, LBrace, RBrace, Comma, Dot, Minus, Plus, Semicolon, Slash, Star}

\* The kinds with a one-rune lookahead and the kind emitted when it matches '='.
twoCharKind(kind) ==
  CASE kind = Bang -> BangEq
    [] kind = Eq -> DoubleEq
    [] kind = Greater -> GreaterEq
    [] kind = Less -> LessEq

LookaheadKinds == {Bang, Eq, Greater, Less}

\* A default case that drops the code point without recording the error.
unexpectedToken_silent(L) == L

\* The default case of the switch: the error is recorded, no token is built.
unexpectedToken(L) == appendError(L, "Unexpected token")

\* The switch statement of ScanTokens, after ch was advanced over.
scanSwitch(L) ==
  LET ch == peek(L)
  IN  IF \E k \in SingleKinds : ch = Rune(k)
      THEN LET k == CHOOSE k \in SingleKinds : ch = Rune(k)
           IN  appendToken(L, NewToken(k, Lexeme(k), L.line))
      ELSE IF \E k \in LookaheadKinds : ch = Rune(k)
      THEN LET k == CHOOSE k \in LookaheadKinds : ch = Rune(k)
               L2 == afterMatch(L, Rune(Eq))
               kk == IF match(L, Rune(Eq)) THEN twoCharKind(k) ELSE k
           IN  appendToken(L2, NewToken(kk, Lexeme(kk), L2.line))
      ELSE unexpectedToken(L)

\* A string branch without the continue after the error: the token follows.
scanString_noContinue(L) ==
  LET r == parseString(L)
      L2 == IF r.err # "" THEN appendError(r.l, r.err) ELSE r.l
  IN  appendToken(L2, NewToken(String, r.lexeme, L2.line))

\* The string branch of the loop body.
scanString(L) ==
  LET r == parseString(L)
  IN  IF r.err # "" THEN appendError(r.l, r.err)
      ELSE appendToken(r.l, NewToken(String, r.lexeme, r.l.line))

\* The number branch of the loop body.
scanNumber(L) ==
  LET r == parseNumber(L)
  IN  appendToken(r.l, NewToken(Number, r.lexeme, r.l.line))

\* The letter branch of the loop body.
scanKeywordOrIdentifier(L) ==
  LET r == parseKeywordOrIdentifier(L)
  IN  appendToken(r.l, NewToken(r.kind, r.lexeme, r.l.line))

\* One iteration of the main loop of ScanTokens.
scanIteration(L) ==
  LET L1 == advance(L)
      ch == peek(L1)
  IN  IF IsSpace(ch) THEN consumeSpaces(L1)
      ELSE IF ch = "\"" THEN scanString(L1)
      ELSE IF IsNumber(ch) THEN scanNumber(L1)
      ELSE IF IsLetter(ch) THEN scanKeywordOrIdentifier(L1)
      ELSE scanSwitch(L1)

\* A return that forgets the EOF token.
scanFinish_noEOF(L) == increaseLine(L)

\* The code after the main loop of ScanTokens.
scanFinish(L) ==
  LET L1 == increaseLine(L)
  IN  appendToken(L1, NewToken(EOF, "", L1.line))

(***************************************************************************)
(* The syntax tree (ast nodes) and the values of the evaluator.  A Go      *)
(* value of type any is a record of its dynamic type t and its payload:    *)
(* n/d is the number (d = 1 for an int; for a float64 the fraction n/d in  *)
(* lowest terms, with 1/0, -1/0 and 0/0 for +Inf, -Inf and NaN), s the     *)
(* string, b the boolean, node the Node held by a grouping Primary.        *)
(* Rounding of float64 is not represented: fractions are exact.            *)
(***************************************************************************)
NilNode == [type |-> "nil"]

NilValue == [t |-> "nil", n |-> 0, d |-> 1, s |-> "", b |-> FALSE, node |-> NilNode]
IntValue(i) == [NilValue EXCEPT !.t = "int", !.n = i]
BoolValue(b) == [NilValue EXCEPT !.t = "bool", !.b = b]
StringValue(s) == [NilValue EXCEPT !.t = "string", !.s = s]
NodeValue(node) == [NilValue EXCEPT !.t = "Node", !.node = node]

Abs(i) == IF i < 0 THEN -i ELSE i
Sign(i) == IF i < 0 THEN -1 ELSE IF i > 0 THEN 1 ELSE 0

RECURSIVE GCD(_, _)
GCD(a, b) == IF b = 0 THEN a ELSE GCD(b, a % b)

\* The float64 n/d: lowest terms, positive denominator; d = 0 keeps the sign.
FloatValue(n, d) ==
  IF d = 0 THEN [NilValue EXCEPT !.t = "float64", !.n = Sign(n), !.d = 0]
  ELSE LET g == GCD(Abs(n), Abs(d))
       IN  [NilValue EXCEPT !.t = "float64", !.n = Sign(d) * (n \div g), !.d = Abs(d) \div g]

\* Primary{value}, Unary{op, node}, Binary{left, op, right}.
Primary(value) == [type |-> "Primary", value |-> value]
Unary(op, node) == [type |-> "Unary", op |-> op, node |-> node]
Binary(left, op, right) == [type |-> "Binary", left |-> left, op |-> op, right |-> right]

\* A Node stored in a field of type any: the nil Node is the nil any.
AsAny(node) == IF node = NilNode THEN NilValue ELSE NodeValue(node)

(***************************************************************************)
(* strconv.ParseFloat and strconv.ParseBool on the lexemes of the scanner. *)
(***************************************************************************)
DigitOf(ch) ==
  CASE ch = "0" -> 0 [] ch = "1" -> 1 [] ch = "2" -> 2 [] ch = "3" -> 3
    [] ch = "4" -> 4 [] ch = "5" -> 5 [] ch = "6" -> 6 [] ch = "7" -> 7
    [] ch = "8" -> 8 [] ch = "9" -> 9 [] OTHER -> -1

CharAt(s, i) == SubSeq(s, i, i)

RECURSIVE Pow10(_)
Pow10(k) == IF k = 0 THEN 1 ELSE 10 * Pow10(k - 1)

\* The digits of s from 1-based position i on, read as a decimal numeral
\* that continues acc; -1 when a rune is not a digit.
RECURSIVE DigitsFrom(_, _, _)
DigitsFrom(s, i, acc) ==
  IF i > Len(s) THEN acc
  ELSE IF DigitOf(CharAt(s, i)) < 0 THEN -1
  ELSE DigitsFrom(s, i + 1, 10 * acc + DigitOf(CharAt(s, i)))

\* The position of the first '.' of s, 0 when there is none.
DotAt(s) ==
  IF \E i \in 1..Len(s) : CharAt(s, i) = "."
  THEN CHOOSE i \in 1..Len(s) : CharAt(s, i) = "." /\ \A j \in 1..(i - 1) : CharAt(s, j) # "."
  ELSE 0

\* strconv.ParseFloat(lexeme, 32) on digits with an optional fraction.
ParseFloat(lexeme) ==
  LET dot == DotAt(lexeme)
      whole == IF dot = 0 THEN lexeme ELSE SubSeq(lexeme, 1, dot - 1)
      frac == IF dot = 0 THEN "" ELSE SubSeq(lexeme, dot + 1, Len(lexeme))
      w == DigitsFrom(whole, 1, 0)
      f == DigitsFrom(frac, 1, 0)
  IN  IF Len(whole) + Len(frac) = 0 \/ w < 0 \/ f < 0
      THEN [ok |-> FALSE, value |-> NilValue]
      ELSE [ok |-> TRUE, value |-> FloatValue(w * Pow10(Len(frac)) + f, Pow10(Len(frac)))]

\* strconv.ParseBool.
ParseBool(lexeme) ==
  IF lexeme \in {"1", "t", "T", "TRUE", "true", "True"}
  THEN [ok |-> TRUE, value |-> BoolValue(TRUE)]
  ELSE IF lexeme \in {"0", "f", "F", "FALSE", "false", "False"}
  THEN [ok |-> TRUE, value |-> BoolValue(FALSE)]
  ELSE [ok |-> FALSE, value |-> NilValue]

(***************************************************************************)
(* The parser (ast parser with the error list).  P is the Parser struct.   *)
(***************************************************************************)
NewParser(tokens) == [tokens |-> tokens, errors |-> <<>>, current |-> 0]

parserIsEnd(P) == P.current >= Len(P.tokens)

\* p.tokens[p.current] is an index expression: out of range, it panics.
InRange(P) == P.current < Len(P.tokens)

parserPeek(P) == P.tokens[P.current + 1]

parserAdvance(P) == [P EXCEPT !.current = P.current + 1]

parserMatch(P, targets) == parserPeek(P).kind \in targets

\* An error list that grows at the front.
registerError_atFront(P, message) == [P EXCEPT !.errors = <<message>> \o P.errors]

registerError(P, message) == [P EXCEPT !.errors = Append(P.errors, message)]

\* The four binary levels: their operators and the function of the operands.
Levels == {"parseEquality", "parseComparison", "parseTerm", "parseFactor"}

\* A table in which the term and factor operators have changed places.
levelOps_swapped(fn) ==
  CASE fn = "parseEquality" -> {DoubleEq, BangEq}
    [] fn = "parseComparison" -> {Greater, GreaterEq, Less, LessEq}
    [] fn = "parseTerm" -> {Star, Slash}
    [] fn = "parseFactor" -> {Plus, Minus}

levelOps(fn) ==
  CASE fn = "parseEquality" -> {DoubleEq, BangEq}
    [] fn = "parseComparison" -> {Greater, GreaterEq, Less, LessEq}
    [] fn = "parseTerm" -> {Plus, Minus}
    [] fn = "parseFactor" -> {Star, Slash}

levelNext(fn) ==
  CASE fn = "parseEquality" -> "parseComparison"
    [] fn = "parseComparison" -> "parseTerm"
    [] fn = "parseTerm" -> "parseFactor"
    [] fn = "parseFactor" -> "parseUnary"

UnaryOps == {Minus, Bang}
LiteralKinds == {String, Number, "True", "False", "Null"}

\* The switch of parseLiteral: the value of the token, or a panic.
literalValue(token) ==
  CASE token.kind = String -> [ok |-> TRUE, value |-> StringValue(token.lexeme)]
    [] token.kind = Number -> ParseFloat(token.lexeme)
    [] token.kind \in {"True", "False"} -> ParseBool(token.lexeme)
    [] token.kind = "Null" -> [ok |-> TRUE, value |-> NilValue]
    [] OTHER -> [ok |-> FALSE, value |-> NilValue]

(***************************************************************************)
(* float64 arithmetic on the fractions.  A zero keeps its sign in d (0/1   *)
(* and 0/-1); x / 0 is an infinity, 0 / 0 and Inf - Inf are NaN.           *)
(***************************************************************************)
NaN == [NilValue EXCEPT !.t = "float64", !.n = 0, !.d = 0]
Inf(sign) == [NilValue EXCEPT !.t = "float64", !.n = sign, !.d = 0]
Zero(sign) == [NilValue EXCEPT !.t = "float64", !.n = 0, !.d = sign]

IsNaN(x) == x.n = 0 /\ x.d = 0
IsInf(x) == x.n # 0 /\ x.d = 0
IsZero(x) == x.n = 0 /\ x.d # 0
SignBit(x) == IF x.n < 0 \/ (x.n = 0 /\ x.d < 0) THEN -1 ELSE 1

floatNeg(x) ==
  IF IsNaN(x) THEN NaN
  ELSE IF IsZero(x) THEN Zero(-SignBit(x))
  ELSE [x EXCEPT !.n = -x.n]

floatAdd(x, y) ==
  IF IsNaN(x) \/ IsNaN(y) THEN NaN
  ELSE IF IsInf(x) /\ IsInf(y) THEN (IF x.n = y.n THEN x ELSE NaN)
  ELSE IF IsInf(x) THEN x
  ELSE IF IsInf(y) THEN y
  ELSE IF IsZero(x) /\ IsZero(y) THEN Zero(IF SignBit(x) = -1 /\ SignBit(y) = -1 THEN -1 ELSE 1)
  ELSE FloatValue(x.n * Abs(y.d) + y.n * Abs(x.d), Abs(x.d) * Abs(y.d))

floatSub(x, y) == floatAdd(x, floatNeg(y))

floatMul(x, y) ==
  IF IsNaN(x) \/ IsNaN(y) THEN NaN
  ELSE IF (IsInf(x) /\ IsZero(y)) \/ (IsZero(x) /\ IsInf(y)) THEN NaN
  ELSE IF IsInf(x) \/ IsInf(y) THEN Inf(SignBit(x) * SignBit(y))
  ELSE IF IsZero(x) \/ IsZero(y) THEN Zero(SignBit(x) * SignBit(y))
  ELSE FloatValue(x.n * y.n, x.d * y.d)

floatDiv(x, y) ==
  IF IsNaN(x) \/ IsNaN(y) THEN NaN
  ELSE IF (IsInf(x) /\ IsInf(y)) \/ (IsZero(x) /\ IsZero(y)) THEN NaN
  ELSE IF IsInf(x) \/ IsZero(y) THEN Inf(SignBit(x) * SignBit(y))
  ELSE IF IsZero(x) \/ IsInf(y) THEN Zero(SignBit(x) * SignBit(y))
  ELSE FloatValue(x.n * y.d, x.d * y.n)

floatLess(x, y) ==
  IF IsNaN(x) \/ IsNaN(y) THEN FALSE
  ELSE IF IsInf(x) THEN x.n < 0 /\ ~(IsInf(y) /\ y.n < 0)
  ELSE IF IsInf(y) THEN y.n > 0
  ELSE x.n * Abs(y.d) < y.n * Abs(x.d)

floatEq(x, y) ==
  IF IsNaN(x) \/ IsNaN(y) THEN FALSE
  ELSE IF IsInf(x) \/ IsInf(y) THEN IsInf(x) /\ IsInf(y) /\ x.n = y.n
  ELSE x.n * Abs(y.d) = y.n * Abs(x.d)

(***************************************************************************)
(* The evaluator.  A result is the pair (value, err) of Eval; err = "" is  *)
(* the nil error.                                                          *)
(***************************************************************************)
Result(value, err) == [value |-> value, err |-> err, panic |-> FALSE]

\* A sign inversion that always answers a float64.
evalNumberOperation_asFloat(value, op) ==
  IF op # Minus
  THEN Result(NilValue, "cannot evaluate numeric sign invertion on unary expression")
  ELSE IF value.t = "int" THEN Result(FloatValue(-value.n, 1), "")
  ELSE Result(floatNeg(value), "")

\* Unary.evalNumberOperation.
evalNumberOperation(value, op) ==
  IF op # Minus
  THEN Result(NilValue, "cannot evaluate numeric sign invertion on unary expression")
  ELSE IF value.t = "int" THEN Result(IntValue(-value.n), "")
  ELSE Result(floatNeg(value), "")

\* Unary.evalBooleanOperation: its results are (bool, error), the bool is
\* converted to any by the return of Unary.Eval.
evalBooleanOperation(value, op) ==
  IF op # Bang
  THEN Result(BoolValue(FALSE), "cannot evaluate boolean negation on unary expression")
  ELSE Result(BoolValue(~value.b), "")

\* Unary.Eval once the operand has returned (nodeValue, err).
unaryEval(op, nodeValue, err) ==
  IF err # "" THEN Result(NilValue, err)
  ELSE IF nodeValue.t \in {"int", "float64"} THEN evalNumberOperation(nodeValue, op)
  ELSE IF nodeValue.t = "bool" THEN evalBooleanOperation(nodeValue, op)
  ELSE Result(NilValue, "cannot evaluate unary expression")

\* operatorsAsNumbers: the type assertions left.(float64), right.(float64).
operatorsAsNumbers(left, right) ==
  IF left.t # "float64"
  THEN [left |-> Zero(1), right |-> Zero(1), err |-> "left operator is not a number"]
  ELSE IF right.t # "float64"
  THEN [left |-> Zero(1), right |-> Zero(1), err |-> "right operator is not a number"]
  ELSE [left |-> left, right |-> right, err |-> ""]

ArithmeticKinds == {Plus, Minus, Star, Slash}
ComparisonKinds == {Greater, GreaterEq, Less, LessEq}
EqualityKinds == {DoubleEq, BangEq}

arithmeticOperations(op, left, right) ==
  CASE op = Plus -> floatAdd(left, right)
    [] op = Minus -> floatSub(left, right)
    [] op = Star -> floatMul(left, right)
    [] op = Slash -> floatDiv(left, right)

comparisonOperations(op, left, right) ==
  CASE op = Greater -> floatLess(right, left)
    [] op = GreaterEq -> floatLess(right, left) \/ floatEq(left, right)
    [] op = Less -> floatLess(left, right)
    [] op = LessEq -> floatLess(left, right) \/ floatEq(left, right)

\* An equality that compares numbers after coercion to float64.
interfaceEq_coercing(left, right) ==
  IF left.t \in {"int", "float64"} /\ right.t \in {"int", "float64"}
  THEN floatEq(left, right)
  ELSE /\ left.t = right.t
       /\ left.b = right.b
       /\ left.s = right.s

\* left == right on two values of type any: equal dynamic types and equal
\* values of that type.
interfaceEq(left, right) ==
  /\ left.t = right.t
  /\ CASE left.t = "nil" -> TRUE
       [] left.t = "int" -> left.n = right.n
       [] left.t = "float64" -> floatEq(left, right)
       [] left.t = "bool" -> left.b = right.b
       [] left.t = "string" -> left.s = right.s

equalityOperations(op, left, right) ==
  CASE op = DoubleEq -> interfaceEq(left, right)
    [] op = BangEq -> ~interfaceEq(left, right)

\* Binary.Eval once both operands have returned without error (lines 250-279).
binaryEval(op, left, right) ==
  IF op \in ArithmeticKinds
  THEN LET r == operatorsAsNumbers(left, right)
       IN  IF r.err # "" THEN Result(NilValue, r.err)
           ELSE Result(arithmeticOperations(op, r.left, r.right), "")
  ELSE IF op \in ComparisonKinds
  THEN LET r == operatorsAsNumbers(left, right)
       IN  IF r.err # "" THEN Result(NilValue, r.err)
           ELSE Result(BoolValue(comparisonOperations(op, r.left, r.right)), "")
  ELSE IF op \in EqualityKinds
  THEN Result(BoolValue(equalityOperations(op, left, right)), "")
  ELSE [Result(NilValue, "") EXCEPT !.panic = TRUE]

(***************************************************************************)
(* The call stack and the control point of the running goroutine.  ctl is  *)
(* what happens next: a call of fn, a return of node (parser) or of        *)
(* (value, err) (evaluator) to the frame on top of frames, a panic, or the *)
(* return of the outermost call to its caller ("done").                    *)
(***************************************************************************)
NoToken == [kind |-> NoKind, lexeme |-> "", line |-> 0]

Idle ==
  [kind |-> "idle", fn |-> "", node |-> NilNode, errors |-> <<>>,
   value |-> NilValue, err |-> "", msg |-> ""]

Call(fn) == [Idle EXCEPT !.kind = "call", !.fn = fn]
Return(node) == [Idle EXCEPT !.kind = "return", !.node = node]
Panic(msg) == [Idle EXCEPT !.kind = "panic", !.msg = msg]
Done(node, errors) == [Idle EXCEPT !.kind = "done", !.node = node, !.errors = errors]

Frame(fn, at) ==
  [fn |-> fn, at |-> at, left |-> NilNode, op |-> NoToken, node |-> NilNode, value |-> NilValue]

Top == frames[Len(frames)]
Pop == SubSeq(frames, 1, Len(frames) - 1)
Push(frame) == Append(frames, frame)

IndexOutOfRange == "index out of range"

\* No parser and no evaluator is running.
AstIdle ==
  /\ p = NewParser(<<>>)
  /\ frames = <<>>
  /\ ctl = Idle

(***************************************************************************)
(* Inputs.                                                                 *)
(***************************************************************************)
Alphabet == {"\n", "\"", "1", ".", "o", "r", "_", "!", "=", "<", ">", "#"}
LongAlphabet == {" ", "\n", "\"", "1", ".", "o", "#"}
FairAlphabet == {" ", "\"", "1", "o", "(", "!", "=", "#"}

RECURSIVE SeqsUpTo(_, _)
SeqsUpTo(S, n) ==
  IF n = 0 THEN {<<>>}
  ELSE LET shorter == SeqsUpTo(S, n - 1)
       IN  shorter \cup { Append(s, c) : s \in { x \in shorter : Len(x) = n - 1 }, c \in S }

\* No token-model call is in progress.
NoQuery ==
  [from |-> "none", origin |-> "", step |-> 0, lexeme |-> "", kind |-> NoKind, found |-> FALSE]

\* Lexemes looked up in the token model: those of the table and unknown ones.
QueryLexemes ==
  { e[1] : e \in lexemeToKindMap } \cup {"", "orx", "Or", "EOF", "=>", "&"}

(***************************************************************************)
(* The scanner as a state machine: one action per kind of loop iteration.  *)
(***************************************************************************)
Init ==
  /\ \E src \in SeqsUpTo(Alphabet, MaxLen) : l = New(src)
  /\ pc = "loop"
  /\ q = NoQuery
  /\ AstIdle

LongInit ==
  /\ \E src \in SeqsUpTo(LongAlphabet, MaxLongLen) : l = New(src)
  /\ pc = "loop"
  /\ q = NoQuery
  /\ AstIdle

FairInit ==
  /\ \E src \in SeqsUpTo(FairAlphabet, MaxFairLen) : l = New(src)
  /\ pc = "loop"
  /\ q = NoQuery
  /\ AstIdle

IsQuote(ch) == ch = "\""
IsSwitched(ch) == ~IsSpace(ch) /\ ~IsQuote(ch) /\ ~IsNumber(ch) /\ ~IsLetter(ch)

\* A loop iteration whose first rune is whitespace (lines 34-37).
ScanSpaces ==
  /\ pc = "loop"
  /\ ~isEnd(l)
  /\ IsSpace(At(l, l.current))
  /\ l' = scanIteration(l)
  /\ UNCHANGED <<pc, q, p, frames, ctl>>

\* A loop iteration whose first rune is '"' (lines 39-50).
ScanString ==
  /\ pc = "loop"
  /\ ~isEnd(l)
  /\ IsQuote(At(l, l.current))
  /\ l' = scanIteration(l)
  /\ UNCHANGED <<pc, q, p, frames, ctl>>

\* A loop iteration whose first rune is a digit (lines 52-57).
ScanNumber ==
  /\ pc = "loop"
  /\ ~isEnd(l)
  /\ IsNumber(At(l, l.current))
  /\ l' = scanIteration(l)
  /\ UNCHANGED <<pc, q, p, frames, ctl>>

\* A loop iteration whose first rune is a letter (lines 59-64).
ScanKeywordOrIdentifier ==
  /\ pc = "loop"
  /\ ~isEnd(l)
  /\ IsLetter(At(l, l.current))
  /\ l' = scanIteration(l)
  /\ UNCHANGED <<pc, q, p, frames, ctl>>

\* A loop iteration that reaches the switch (lines 66-117).
ScanSwitch ==
  /\ pc = "loop"
  /\ ~isEnd(l)
  /\ IsSwitched(At(l, l.current))
  /\ l' = scanIteration(l)
  /\ UNCHANGED <<pc, q, p, frames, ctl>>

\* The loop has ended: the line is increased, EOF appended, the lists returned.
ScanEOF ==
  /\ pc = "loop"
  /\ isEnd(l)
  /\ l' = scanFinish(l)
  /\ pc' = "returned"
  /\ UNCHANGED <<q, p, frames, ctl>>

Next ==
  \/ ScanSpaces
  \/ ScanString
  \/ ScanNumber
  \/ ScanKeywordOrIdentifier
  \/ ScanSwitch
  \/ ScanEOF

Spec == Init /\ [][Next]_vars
LongSpec == LongInit /\ [][Next]_vars

(***************************************************************************)
(* The token model as a state machine: a kind or a lexeme is drawn, then   *)
(* TokenKind.Lexeme and tokenKindFromKeyword are applied in turn.          *)
(***************************************************************************)
TokInit ==
  /\ l = New(<<>>)
  /\ pc = "tokens"
  /\ \/ \E k \in TokenKinds : q = [NoQuery EXCEPT !.from = "kind", !.origin = k, !.kind = k]
     \/ \E s \in QueryLexemes : q = [NoQuery EXCEPT !.from = "lexeme", !.origin = s, !.lexeme = s]
  /\ AstIdle

\* TokenKind.Lexeme on the kind at hand.  The inverse map was built in map
\* iteration order, so it holds any one of the lexemes given to the kind.
CallLexeme ==
  /\ pc = "tokens"
  /\ \/ q.from = "kind" /\ q.step = 0
     \/ q.from = "lexeme" /\ q.step = 1 /\ q.found
  /\ \E lexeme \in (IF kindToLexemeMap(q.kind) = {} THEN {Lexeme(q.kind)} ELSE kindToLexemeMap(q.kind)) :
       q' = [q EXCEPT !.lexeme = lexeme, !.step = q.step + 1]
  /\ UNCHANGED <<l, pc, p, frames, ctl>>

\* tokenKindFromKeyword on the lexeme at hand.
CallTokenKindFromKeyword ==
  /\ pc = "tokens"
  /\ \/ q.from = "lexeme" /\ q.step = 0
     \/ q.from = "kind" /\ q.step = 1
  /\ LET r == tokenKindFromKeyword(q.lexeme)
     IN  q' = [q EXCEPT !.kind = r.kind, !.found = r.found, !.step = q.step + 1]
  /\ UNCHANGED <<l, pc, p, frames, ctl>>

TokNext == CallLexeme \/ CallTokenKindFromKeyword

TokSpec == TokInit /\ [][TokNext]_vars

\* ScanTokens is one sequential call: a loop iteration that can run, runs.
FairSpec == FairInit /\ [][Next]_vars /\ WF_vars(Next)

(***************************************************************************)
(* The parser as a state machine.  A step runs one parse function from its *)
(* entry, or from the return of the call it was waiting for, to its next   *)
(* call or to its return.                                                  *)
(***************************************************************************)
ParseAlphabet ==
  { NewToken(Number, "1", 1), NewToken("Null", "null", 1), NewToken(LParen, "(", 1),
    NewToken(RParen, ")", 1), NewToken(Minus, "-", 1), NewToken(Bang, "!", 1),
    NewToken(Star, "*", 1), NewToken(DoubleEq, "==", 1), NewToken(Semicolon, ";", 1),
    NewToken(String, "a", 1), NewToken("True", "true", 1), NewToken(Plus, "+", 1) }

LongParseAlphabet ==
  { NewToken(Number, "1", 1), NewToken(Minus, "-", 1), NewToken(Star, "*", 1),
    NewToken(Less, "<", 1), NewToken(BangEq, "!=", 1), NewToken(LParen, "(", 1),
    NewToken(RParen, ")", 1) }

EOFToken == NewToken(EOF, "", 1)

\* The tests hand the parser bare token lists; the scanner ends its list
\* with EOF.
ParseInit ==
  /\ \E body \in SeqsUpTo(ParseAlphabet, MaxTokens) :
       \E tokens \in {body, Append(body, EOFToken)} : p = NewParser(tokens)
  /\ frames = <<>>
  /\ ctl = Call("Parse")
  /\ l = New(<<>>)
  /\ pc = "parser"
  /\ q = NoQuery

LongParseInit ==
  /\ \E body \in SeqsUpTo(LongParseAlphabet, MaxLongTokens) :
       p = NewParser(Append(body, EOFToken))
  /\ frames = <<>>
  /\ ctl = Call("Parse")
  /\ l = New(<<>>)
  /\ pc = "parser"
  /\ q = NoQuery

\* Parse is entered: it calls parseEquality (line 26).
ParseCall ==
  /\ pc = "parser"
  /\ ctl.kind = "call" /\ ctl.fn = "Parse"
  /\ frames' = Push(Frame("Parse", "call"))
  /\ ctl' = Call("parseEquality")
  /\ UNCHANGED <<l, pc, q, p>>

\* parseEquality returned to Parse: Parse returns the node and p.errors, read
\* after the call.  A Parse called by parsePrimary has its errors dropped.
ParseReturn ==
  /\ pc = "parser"
  /\ ctl.kind = "return" /\ frames # <<>> /\ Top.fn = "Parse"
  /\ frames' = Pop
  /\ ctl' = IF Len(frames) = 1 THEN Done(ctl.node, p.errors) ELSE Return(ctl.node)
  /\ UNCHANGED <<l, pc, q, p>>

\* A binary level is entered: it calls the next level for its left operand.
LevelCall ==
  /\ pc = "parser"
  /\ ctl.kind = "call" /\ ctl.fn \in Levels
  /\ frames' = Push(Frame(ctl.fn, "left"))
  /\ ctl' = Call(levelNext(ctl.fn))
  /\ UNCHANGED <<l, pc, q, p>>

\* An operand returned to a binary level: left is set or folded, then the
\* loop condition decides between another right operand and the return.
LevelReturn ==
  /\ pc = "parser"
  /\ ctl.kind = "return" /\ frames # <<>> /\ Top.fn \in Levels
  /\ LET fn == Top.fn
         left == IF Top.at = "left" THEN ctl.node ELSE Binary(Top.left, Top.op, ctl.node)
     IN  IF ~parserIsEnd(p) /\ parserMatch(p, levelOps(fn))
         THEN /\ p' = parserAdvance(p)
              /\ frames' = Append(Pop, [Frame(fn, "right") EXCEPT !.left = left, !.op = parserPeek(p)])
              /\ ctl' = Call(levelNext(fn))
         ELSE /\ p' = p
              /\ frames' = Pop
              /\ ctl' = Return(left)
  /\ UNCHANGED <<l, pc, q>>

\* parseUnary is entered (lines 81-91).
UnaryCall ==
  /\ pc = "parser"
  /\ ctl.kind = "call" /\ ctl.fn = "parseUnary"
  /\ IF ~InRange(p)
     THEN ctl' = Panic(IndexOutOfRange) /\ UNCHANGED <<p, frames>>
     ELSE IF parserMatch(p, UnaryOps)
     THEN /\ p' = parserAdvance(p)
          /\ frames' = Push([Frame("parseUnary", "operand") EXCEPT !.op = parserPeek(p)])
          /\ ctl' = Call("parseUnary")
     ELSE /\ ctl' = Call("parsePrimary")
          /\ UNCHANGED <<p, frames>>
  /\ UNCHANGED <<l, pc, q>>

\* The operand returned to parseUnary: Unary{op, node} is returned.
UnaryReturn ==
  /\ pc = "parser"
  /\ ctl.kind = "return" /\ frames # <<>> /\ Top.fn = "parseUnary"
  /\ frames' = Pop
  /\ ctl' = Return(Unary(Top.op, ctl.node))
  /\ UNCHANGED <<l, pc, q, p>>

\* A parsePrimary that returns nil without recording the error.
PrimaryCall_silent ==
  /\ pc = "parser"
  /\ ctl.kind = "call" /\ ctl.fn = "parsePrimary"
  /\ IF ~InRange(p)
     THEN ctl' = Panic(IndexOutOfRange) /\ UNCHANGED <<p, frames>>
     ELSE IF parserMatch(p, {LParen})
     THEN /\ p' = parserAdvance(p)
          /\ frames' = Push(Frame("parsePrimary", "group"))
          /\ ctl' = Call("Parse")
     ELSE IF parserMatch(p, LiteralKinds)
     THEN /\ ctl' = Call("parseLiteral")
          /\ UNCHANGED <<p, frames>>
     ELSE /\ ctl' = Return(NilNode)
          /\ UNCHANGED <<p, frames>>
  /\ UNCHANGED <<l, pc, q>>

\* parsePrimary is entered (lines 93-118).
PrimaryCall ==
  /\ pc = "parser"
  /\ ctl.kind = "call" /\ ctl.fn = "parsePrimary"
  /\ IF ~InRange(p)
     THEN ctl' = Panic(IndexOutOfRange) /\ UNCHANGED <<p, frames>>
     ELSE IF parserMatch(p, {LParen})
     THEN /\ p' = parserAdvance(p)
          /\ frames' = Push(Frame("parsePrimary", "group"))
          /\ ctl' = Call("Parse")
     ELSE IF parserMatch(p, LiteralKinds)
     THEN /\ ctl' = Call("parseLiteral")
          /\ UNCHANGED <<p, frames>>
     ELSE /\ p' = registerError(p, "Literal expected")
          /\ ctl' = Return(NilNode)
          /\ UNCHANGED frames
  /\ UNCHANGED <<l, pc, q>>

\* The inner Parse returned to parsePrimary (lines 96-103).
PrimaryReturn ==
  /\ pc = "parser"
  /\ ctl.kind = "return" /\ frames # <<>> /\ Top.fn = "parsePrimary"
  /\ IF ~InRange(p)
     THEN ctl' = Panic(IndexOutOfRange) /\ UNCHANGED <<p, frames>>
     ELSE /\ p' = parserAdvance(IF ~parserMatch(p, {RParen})
                                THEN registerError(p, "Unterminated group expression")
                                ELSE p)
          /\ frames' = Pop
          /\ ctl' = Return(Primary(AsAny(ctl.node)))
  /\ UNCHANGED <<l, pc, q>>

\* parseLiteral (lines 120-153).
LiteralCall ==
  /\ pc = "parser"
  /\ ctl.kind = "call" /\ ctl.fn = "parseLiteral"
  /\ IF ~InRange(p)
     THEN ctl' = Panic(IndexOutOfRange) /\ p' = p
     ELSE LET r == literalValue(parserPeek(p))
          IN  IF ~r.ok
              THEN ctl' = Panic("cannot parse literal") /\ p' = p
              ELSE /\ p' = parserAdvance(p)
                   /\ ctl' = Return(Primary(r.value))
  /\ UNCHANGED <<l, pc, q, frames>>

ParseNext ==
  \/ ParseCall
  \/ ParseReturn
  \/ LevelCall
  \/ LevelReturn
  \/ UnaryCall
  \/ UnaryReturn
  \/ PrimaryCall
  \/ PrimaryReturn
  \/ LiteralCall

ParseSpec == ParseInit /\ [][ParseNext]_vars
LongParseSpec == LongParseInit /\ [][ParseNext]_vars

(***************************************************************************)
(* fmt's %v on the values a literal holds.  Every float64 is a fraction    *)
(* with a power of two for denominator, so its decimal expansion ends; the *)
(* exponent form of large and tiny numbers is outside the checked inputs.  *)
(***************************************************************************)
DigitChar(i) == SubSeq("0123456789", i + 1, i + 1)

RECURSIVE NatString(_)
NatString(i) == IF i < 10 THEN DigitChar(i) ELSE NatString(i \div 10) \o DigitChar(i % 10)

IntString(i) == IF i < 0 THEN "-" \o NatString(-i) ELSE NatString(i)

\* The k digits of the fraction f / 10^k.
RECURSIVE FracString(_, _)
FracString(f, k) == IF k = 0 THEN "" ELSE FracString(f \div 10, k - 1) \o DigitChar(f % 10)

FloatString(x) ==
  IF IsNaN(x) THEN "NaN"
  ELSE IF IsInf(x) THEN (IF x.n > 0 THEN "+Inf" ELSE "-Inf")
  ELSE IF IsZero(x) THEN (IF x.d < 0 THEN "-0" ELSE "0")
  ELSE LET k == CHOOSE k \in 0..MaxDecimals :
                  /\ Pow10(k) % x.d = 0
                  /\ \A j \in 0..(k - 1) : Pow10(j) % x.d # 0
           scaled == Abs(x.n) * (Pow10(k) \div x.d)
           whole == NatString(scaled \div Pow10(k))
           sign == IF x.n < 0 THEN "-" ELSE ""
       IN  IF k = 0 THEN sign \o whole
           ELSE sign \o whole \o "." \o FracString(scaled % Pow10(k), k)

\* Go syntax (%#v) for the value: a string comes in quotes.
FormatValue_goSyntax(value) ==
  CASE value.t = "int" -> IntString(value.n)
    [] value.t = "float64" -> FloatString(value)
    [] value.t = "bool" -> (IF value.b THEN "true" ELSE "false")
    [] value.t = "string" -> "\"" \o value.s \o "\""

FormatValue(value) ==
  CASE value.t = "int" -> IntString(value.n)
    [] value.t = "float64" -> FloatString(value)
    [] value.t = "bool" -> (IF value.b THEN "true" ELSE "false")
    [] value.t = "string" -> value.s

\* Primary.String, Unary.String, Binary.String.
RECURSIVE String_(_)
String_(node) ==
  CASE node.type = "Primary" ->
         IF node.value.t = "nil" THEN Lexeme("Null")
         ELSE IF node.value.t = "Node" THEN "(" \o String_(node.value.node) \o ")"
         ELSE FormatValue(node.value)
    [] node.type = "Unary" -> "(" \o node.op.lexeme \o String_(node.node) \o ")"
    [] node.type = "Binary" ->
         "(" \o String_(node.left) \o " " \o node.op.lexeme \o " " \o String_(node.right) \o ")"

\* A method is called on a nil Node somewhere in the tree.
RECURSIVE HasNilChild(_)
HasNilChild(node) ==
  CASE node.type = "nil" -> TRUE
    [] node.type = "Primary" -> node.value.t = "Node" /\ HasNilChild(node.value.node)
    [] node.type = "Unary" -> HasNilChild(node.node)
    [] node.type = "Binary" -> HasNilChild(node.left) \/ HasNilChild(node.right)

(***************************************************************************)
(* The evaluator as a state machine.  A step runs one Eval method from its *)
(* entry, or from the return of the operand it was waiting for, to its     *)
(* next call or to its return.                                             *)
(***************************************************************************)
CallOn(fn, node) == [Idle EXCEPT !.kind = "call", !.fn = fn, !.node = node]
ReturnResult(r) == [Idle EXCEPT !.kind = "return", !.value = r.value, !.err = r.err]
NilDereference == "invalid memory address or nil pointer dereference"

OpToken(kind) == NewToken(kind, Lexeme(kind), 1)

FloatLiterals == { FloatValue(i, 1) : i \in 0..MaxNumber } \cup {FloatValue(1, 2)}

LiteralValues ==
  {IntValue(1), BoolValue(TRUE), BoolValue(FALSE), StringValue("a"), StringValue("A"), NilValue}
    \cup FloatLiterals

Leaves(values) == { Primary(v) : v \in values }
UnaryNodes(kinds, nodes) == { Unary(OpToken(k), n) : k \in kinds, n \in nodes }
BinaryNodes(kinds, lefts, rights) ==
  { Binary(a, OpToken(k), b) : k \in kinds, a \in lefts, b \in rights }
GroupNodes(nodes) == { Primary(NodeValue(n)) : n \in nodes }

\* The trees of the tests that are rendered: 5 * 12, -10, true == false.
TestNodes ==
  { Binary(Primary(FloatValue(5, 1)), OpToken(Star), Primary(FloatValue(12, 1))),
    Unary(OpToken(Minus), Primary(IntValue(10))),
    Binary(Primary(BoolValue(TRUE)), OpToken(DoubleEq), Primary(BoolValue(FALSE))) }

Operands ==
  Leaves(LiteralValues)
    \cup UnaryNodes(UnaryOps, Leaves(LiteralValues))
    \cup BinaryNodes({Slash}, Leaves(FloatLiterals), Leaves(FloatLiterals))
    \cup {NilNode}

EvalRoots ==
  (Operands \ {NilNode})
    \cup UnaryNodes(UnaryOps, Operands)
    \cup BinaryNodes(ArithmeticKinds \cup ComparisonKinds \cup EqualityKinds, Operands, Operands)
    \cup GroupNodes(Operands \ {NilNode})
    \cup TestNodes

\* A tree is at hand and its caller (the frame "main") calls one of its
\* methods.
EvalInit ==
  /\ \E node \in EvalRoots : \E fn \in {"Eval", "String"} :
       /\ ctl = CallOn(fn, node)
       /\ frames = <<[Frame("main", "call") EXCEPT !.node = node]>>
  /\ p = NewParser(<<>>)
  /\ l = New(<<>>)
  /\ pc = "eval"
  /\ q = NoQuery

Calls(fn, type) == pc = "eval" /\ ctl.kind = "call" /\ ctl.fn = fn /\ ctl.node.type = type
ReturnsTo(fn, at) ==
  pc = "eval" /\ ctl.kind = "return" /\ frames # <<>> /\ Top.fn = fn /\ Top.at = at

\* Node.String on the tree.
StringCall ==
  /\ pc = "eval"
  /\ ctl.kind = "call" /\ ctl.fn = "String"
  /\ ctl' = IF HasNilChild(ctl.node) THEN Panic(NilDereference)
            ELSE [Idle EXCEPT !.kind = "done", !.fn = "String", !.node = ctl.node,
                              !.msg = String_(ctl.node)]
  /\ UNCHANGED <<l, pc, q, p, frames>>

\* Eval is called on a nil Node.
NilEval ==
  /\ Calls("Eval", "nil")
  /\ ctl' = Panic(NilDereference)
  /\ UNCHANGED <<l, pc, q, p, frames>>

\* Primary.Eval (lines 110-120).
PrimaryEval ==
  /\ Calls("Eval", "Primary")
  /\ ctl' = IF ctl.node.value.t = "Node" THEN CallOn("Eval", ctl.node.value.node)
            ELSE ReturnResult(Result(ctl.node.value, ""))
  /\ UNCHANGED <<l, pc, q, p, frames>>

\* Unary.Eval is entered: the operand is evaluated first (line 132).
UnaryEvalCall ==
  /\ Calls("Eval", "Unary")
  /\ frames' = Push([Frame("Unary.Eval", "operand") EXCEPT !.node = ctl.node])
  /\ ctl' = CallOn("Eval", ctl.node.node)
  /\ UNCHANGED <<l, pc, q, p>>

\* The operand returned to Unary.Eval (lines 133-146).
UnaryEvalReturn ==
  /\ ReturnsTo("Unary.Eval", "operand")
  /\ frames' = Pop
  /\ ctl' = ReturnResult(unaryEval(Top.node.op.kind, ctl.value, ctl.err))
  /\ UNCHANGED <<l, pc, q, p>>

\* Binary.Eval is entered: the left operand is evaluated first (line 238).
BinaryEvalCall ==
  /\ Calls("Eval", "Binary")
  /\ frames' = Push([Frame("Binary.Eval", "left") EXCEPT !.node = ctl.node])
  /\ ctl' = CallOn("Eval", ctl.node.left)
  /\ UNCHANGED <<l, pc, q, p>>

\* A Binary.Eval that goes on to its right operand whatever the left one
\* returned.
BinaryEvalLeft_noEarlyReturn ==
  /\ ReturnsTo("Binary.Eval", "left")
  /\ frames' = Append(Pop, [Top EXCEPT !.at = "right", !.value = ctl.value])
  /\ ctl' = CallOn("Eval", Top.node.right)
  /\ UNCHANGED <<l, pc, q, p>>

\* The left operand returned to Binary.Eval (lines 240-244).
BinaryEvalLeft ==
  /\ ReturnsTo("Binary.Eval", "left")
  /\ IF ctl.err # ""
     THEN /\ frames' = Pop
          /\ ctl' = ReturnResult(Result(NilValue, ctl.err))
     ELSE /\ frames' = Append(Pop, [Top EXCEPT !.at = "right", !.value = ctl.value])
          /\ ctl' = CallOn("Eval", Top.node.right)
  /\ UNCHANGED <<l, pc, q, p>>

\* The right operand returned to Binary.Eval (lines 246-279).
BinaryEvalRight ==
  /\ ReturnsTo("Binary.Eval", "right")
  /\ LET r == IF ctl.err # "" THEN Result(NilValue, ctl.err)
              ELSE binaryEval(Top.node.op.kind, Top.value, ctl.value)
     IN  IF r.panic
         THEN ctl' = Panic("binary operation not implemented") /\ UNCHANGED frames
         ELSE ctl' = ReturnResult(r) /\ frames' = Pop
  /\ UNCHANGED <<l, pc, q, p>>

\* The outermost Eval returns (value, err) to its caller.
EvalReturn ==
  /\ ReturnsTo("main", "call")
  /\ frames' = Pop
  /\ ctl' = [Idle EXCEPT !.kind = "done", !.fn = "Eval", !.node = Top.node,
                        !.value = ctl.value, !.err = ctl.err]
  /\ UNCHANGED <<l, pc, q, p>>

EvalNext ==
  \/ StringCall
  \/ NilEval
  \/ PrimaryEval
  \/ UnaryEvalCall
  \/ UnaryEvalReturn
  \/ BinaryEvalCall
  \/ BinaryEvalLeft
  \/ BinaryEvalRight
  \/ EvalReturn

EvalSpec == EvalInit /\ [][EvalNext]_vars

(***************************************************************************)
(* Helpers of the properties: the source read directly, not through the    *)
(* scanner's cursor operations.                                            *)
(***************************************************************************)
LastToken == l.tokens[Len(l.tokens)]

\* The rune the next loop iteration starts on, and the one after it.
AtLoopOn(S) == pc = "loop" /\ l.current < Len(l.source) /\ l.source[l.current + 1] \in S
NextRune == IF l.current + 1 < Len(l.source) THEN l.source[l.current + 2] ELSE NUL

AddsToken(token) == l'.tokens = Append(l.tokens, token)

FixedRunes == {"(", ")", "{", "}", ",", ".", "-", "+", ";", "/", "*", "!", "=", ">", "<"}
SpaceRunes == {" ", "\n", "\t", "\r"}
DigitRunes == {"0", "1", "2", "3", "4", "5", "6", "7", "8", "9"}
LetterRunes ==
  {"a", "b", "c", "d", "e", "f", "g", "h", "i", "j", "k", "l", "m",
   "n", "o", "p", "q", "r", "s", "t", "u", "v", "w", "x", "y", "z"}
UncategorizedRunes ==
  (Alphabet \cup LongAlphabet \cup FairAlphabet) \ (FixedRunes \cup SpaceRunes \cup DigitRunes \cup LetterRunes \cup {"\""})

\* Newline code points among the first n runes of the source.
NewlinesBefore(n) == Cardinality({ i \in 1..n : l.source[i] = "\n" })

\* The rune at 1-based position i lies outside every string literal: an even
\* number of '"' precedes it.
OutsideString(i) == Cardinality({ j \in 1..(i - 1) : l.source[j] = "\"" }) % 2 = 0

NewlinesOutsideStrings ==
  Cardinality({ i \in 1..Len(l.source) : l.source[i] = "\n" /\ OutsideString(i) })

\* The source text of the 0-based index range [from, to).
RECURSIVE Text(_, _)
Text(from, to) ==
  IF from >= to THEN "" ELSE l.source[from + 1] \o Text(from + 1, to)

\* The end of the maximal run of runes of S that starts at 0-based index i.
RunEnd(S, i) ==
  CHOOSE j \in i..Len(l.source) :
    /\ \A k \in i..(j - 1) : l.source[k + 1] \in S
    /\ (j = Len(l.source) \/ l.source[j + 1] \notin S)

\* The end of the numeral that starts at index s: digits, then at most one
\* '.' that a digit follows, then digits.
NumberEnd(s) ==
  LET d == RunEnd(DigitRunes, s)
  IN  IF /\ d + 1 < Len(l.source)
         /\ l.source[d + 1] = "."
         /\ l.source[d + 2] \in DigitRunes
      THEN RunEnd(DigitRunes, d + 1)
      ELSE d

HasDot(lexeme) == \E i \in 1..Len(lexeme) : SubSeq(lexeme, i, i) = "."
StartsWith(lexeme, S) == Len(lexeme) > 0 /\ SubSeq(lexeme, 1, 1) \in S

QuoteCount == Cardinality({ i \in 1..Len(l.source) : l.source[i] = "\"" })
CountIn(seq, x) == Cardinality({ i \in 1..Len(seq) : seq[i] = x })

KindsOf(tokens) == [i \in 1..Len(tokens) |-> tokens[i].kind]
LexemesOf(tokens) == [i \in 1..Len(tokens) |-> tokens[i].lexeme]

(***************************************************************************)
(* C1: every scan of a finite source reaches the return of ScanTokens, and *)
(* a loop iteration that starts on a code point of no category appends the *)
(* error "Unexpected token", appends no token and leaves the cursor on the *)
(* next code point.                                                        *)
(***************************************************************************)
C1_UnexpectedSkipped ==
  AtLoopOn(UncategorizedRunes) =>
    /\ l'.errors = Append(l.errors, "Unexpected token")
    /\ l'.tokens = l.tokens
    /\ l'.current = l.current + 1
    /\ pc' = "loop"

C1_ScanCompletes == <>(pc = "returned") /\ [][C1_UnexpectedSkipped]_vars

\* "#" then "(": the error is recorded and the scan went on to emit LParen.
C1_Witness ==
  /\ pc = "returned"
  /\ Len(l.source) >= 2 /\ l.source[1] = "#" /\ l.source[2] = "("
  /\ l.errors = <<"Unexpected token">>
  /\ Len(l.tokens) >= 2 /\ l.tokens[1].kind = LParen

(***************************************************************************)
(* C2: the token sequence ScanTokens returns for a fresh Lexer holds       *)
(* exactly one EOF token, as its last element, with an empty lexeme.       *)
(***************************************************************************)
C2_SingleEOFLast ==
  pc = "returned" =>
    /\ Len(l.tokens) >= 1
    /\ LastToken.kind = EOF
    /\ LastToken.lexeme = ""
    /\ \A i \in 1..(Len(l.tokens) - 1) : l.tokens[i].kind # EOF

C2_Witness == pc = "returned" /\ Len(l.tokens) >= 3 /\ Len(l.errors) >= 1

(***************************************************************************)
(* C3 as stated: the line of the EOF token is one greater than the number  *)
(* of newline code points the scan consumed.                               *)
(***************************************************************************)
C3_Original ==
  pc = "returned" => LastToken.line = 1 + NewlinesBefore(Len(l.source))

(***************************************************************************)
(* C3 amended: the line of the EOF token is two greater than the number of *)
(* newline code points the scan consumed as whitespace, that is, of those  *)
(* lying outside string literals.                                          *)
(***************************************************************************)
C3_EOFLine ==
  pc = "returned" => LastToken.line = 2 + NewlinesOutsideStrings

\* A newline before a string literal that holds another newline.
C3_Witness ==
  /\ pc = "returned"
  /\ NewlinesOutsideStrings >= 1
  /\ NewlinesBefore(Len(l.source)) > NewlinesOutsideStrings
  /\ LastToken.line = 2 + NewlinesOutsideStrings

(***************************************************************************)
(* C4: every token appended by a loop iteration carries as line 1 plus the *)
(* number of newline code points that precede its first character in the   *)
(* source, those inside earlier string literals included.                  *)
(***************************************************************************)
C4_TokenLine ==
  (pc = "loop" /\ pc' = "loop" /\ Len(l'.tokens) = Len(l.tokens) + 1) =>
    l'.tokens[Len(l'.tokens)].line = 1 + NewlinesBefore(l.current)

C4_LineOfFirstCharacter == [][C4_TokenLine]_vars

(***************************************************************************)
(* C5: a loop iteration on '!', '=', '<' or '>' appends the two-character  *)
(* kind and consumes two code points iff the next code point is '=';       *)
(* otherwise it appends the one-character kind and consumes one.           *)
(***************************************************************************)
C5_Step ==
  AtLoopOn({"!", "=", "<", ">"}) =>
    LET ch == l.source[l.current + 1]
        one == CASE ch = "!" -> "Bang" [] ch = "=" -> "Eq"
                 [] ch = "<" -> "Less" [] ch = ">" -> "Greater"
        two == CASE ch = "!" -> "BangEq" [] ch = "=" -> "DoubleEq"
                 [] ch = "<" -> "LessEq" [] ch = ">" -> "GreaterEq"
    IN  IF NextRune = "="
        THEN /\ AddsToken([kind |-> two, lexeme |-> ch \o "=", line |-> l.line])
             /\ l'.current = l.current + 2
        ELSE /\ AddsToken([kind |-> one, lexeme |-> ch, line |-> l.line])
             /\ l'.current = l.current + 1

C5_TwoCharacterOperators == [][C5_Step]_vars

\* The scan of "!!==": Bang, BangEq, Eq.
C5_Witness ==
  /\ pc = "returned"
  /\ l.source = <<"!", "!", "=", "=">>
  /\ KindsOf(l.tokens) = <<"Bang", "BangEq", "Eq", "EOF">>

(***************************************************************************)
(* C6: a loop iteration on a digit appends a token whose lexeme is the     *)
(* maximal run of digits with at most one '.', the '.' taken only when a   *)
(* digit follows it, and stops right after that lexeme; a loop iteration   *)
(* on a '.' (one no number took) appends a Dot token.                      *)
(***************************************************************************)
C6_Step ==
  /\ AtLoopOn(DigitRunes) =>
       /\ Len(l'.tokens) = Len(l.tokens) + 1
       /\ SubSeq(l'.tokens, 1, Len(l.tokens)) = l.tokens
       /\ l'.tokens[Len(l'.tokens)].lexeme = Text(l.current, NumberEnd(l.current))
       /\ l'.current = NumberEnd(l.current)
  /\ AtLoopOn({"."}) =>
       /\ AddsToken([kind |-> "Dot", lexeme |-> ".", line |-> l.line])
       /\ l'.current = l.current + 1

C6_NumericLexeme == [][C6_Step]_vars

\* The scan of "1.1.1": the second '.' ends the number and is a Dot.
C6_Witness ==
  /\ pc = "returned"
  /\ l.source = <<"1", ".", "1", ".", "1">>
  /\ LexemesOf(l.tokens) = <<"1.1", ".", "1", "">>

(***************************************************************************)
(* C7: a token scanned from a numeral has kind Float if its lexeme holds a *)
(* '.' and kind Integer otherwise.                                         *)
(***************************************************************************)
C7_FloatOrInteger ==
  \A i \in 1..Len(l.tokens) :
    (l.tokens[i].kind # "String" /\ StartsWith(l.tokens[i].lexeme, DigitRunes)) =>
      l.tokens[i].kind = IF HasDot(l.tokens[i].lexeme) THEN "Float" ELSE "Integer"

(***************************************************************************)
(* C8: a loop iteration on a '"' that no later '"' closes appends exactly  *)
(* the error "unterminated string" and no token, keeping the tokens        *)
(* scanned before; the returned sequence then still ends with EOF and      *)
(* holds that error once.                                                  *)
(***************************************************************************)
C8_Step ==
  (/\ AtLoopOn({"\""})
   /\ \A j \in (l.current + 2)..Len(l.source) : l.source[j] # "\"") =>
    /\ l'.errors = Append(l.errors, "unterminated string")
    /\ l'.tokens = l.tokens
    /\ l'.current = Len(l.source)

C8_Returned ==
  (pc = "returned" /\ QuoteCount % 2 = 1) =>
    /\ CountIn(l.errors, "unterminated string") = 1
    /\ CountIn(KindsOf(l.tokens), "String") = QuoteCount \div 2
    /\ LastToken.kind = "EOF"

C8_UnterminatedString == [][C8_Step]_vars /\ []C8_Returned

\* An identifier, then a string that is never closed.
C8_Witness ==
  /\ pc = "returned"
  /\ l.source = <<"o", "\"", "1", "\n">>
  /\ KindsOf(l.tokens) = <<"Identifier", "EOF">>
  /\ l.errors = <<"unterminated string">>

(***************************************************************************)
(* C9: a loop iteration on a letter appends a token whose lexeme is the    *)
(* maximal run of letters, digits and '_' from there; its kind is the      *)
(* keyword kind iff the whole lexeme is a keyword of the table, and        *)
(* Identifier otherwise.                                                   *)
(***************************************************************************)
C9_Step ==
  AtLoopOn(LetterRunes) =>
    LET end == RunEnd(LetterRunes \cup DigitRunes \cup {"_"}, l.current)
        lexeme == Text(l.current, end)
        keyword == { e \in lexemeToKindMap : e[1] = lexeme }
    IN  /\ l'.current = end
        /\ Len(l'.tokens) = Len(l.tokens) + 1
        /\ l'.tokens[Len(l'.tokens)].lexeme = lexeme
        /\ l'.tokens[Len(l'.tokens)].line = l.line
        /\ (keyword = {}) <=> (l'.tokens[Len(l'.tokens)].kind = "Identifier")
        /\ \A e \in keyword : l'.tokens[Len(l'.tokens)].kind = e[2]

C9_KeywordOrIdentifier == [][C9_Step]_vars

\* The keyword "or" as a prefix of a longer run is an Identifier.
C9_Witness ==
  /\ pc = "returned"
  /\ l.tokens[1] = [kind |-> "Identifier", lexeme |-> "or_1", line |-> 1]

(***************************************************************************)
(* C10: the fixed-lexeme map is a bijection.  For every fixed-lexeme kind  *)
(* k, tokenKindFromKeyword(k.Lexeme()) is (k, found); for every lexeme of  *)
(* the table, the kind it maps to has exactly that lexeme.                 *)
(***************************************************************************)
VariableKinds == {"String", "Integer", "Float", "Identifier", "Number", "EOF"}

C10_Bijection ==
  /\ (q.from = "kind" /\ q.step = 2 /\ q.origin \notin VariableKinds) =>
       (q.found /\ q.kind = q.origin)
  /\ (q.from = "lexeme" /\ q.step = 2) => q.lexeme = q.origin
  /\ (q.from = "lexeme" /\ q.step = 1 /\ \E e \in lexemeToKindMap : e[1] = q.origin) =>
       q.found

\* "for" was looked up and its kind gave the lexeme back.
C10_Witness ==
  /\ q.from = "lexeme" /\ q.step = 2
  /\ q.origin = "for" /\ q.kind = "For" /\ q.lexeme = "for"

(***************************************************************************)
(* The grammar of expressions, read as a grammar: a token range derives a  *)
(* nonterminal; GrammarTree is the tree of the one derivation.             *)
(*   equality   -> comparison (("==" | "!=") comparison)*                  *)
(*   comparison -> term ((">" | ">=" | "<" | "<=") term)*                  *)
(*   term       -> factor (("+" | "-") factor)*                            *)
(*   factor     -> unary (("*" | "/") unary)*                              *)
(*   unary      -> ("-" | "!") unary | primary                             *)
(*   primary    -> literal | "(" equality ")"                              *)
(***************************************************************************)
GrammarOps(nt) ==
  CASE nt = "equality" -> {"==", "!="}
    [] nt = "comparison" -> {">", ">=", "<", "<="}
    [] nt = "term" -> {"+", "-"}
    [] nt = "factor" -> {"*", "/"}

GrammarNext(nt) ==
  CASE nt = "equality" -> "comparison"
    [] nt = "comparison" -> "term"
    [] nt = "term" -> "factor"
    [] nt = "factor" -> "unary"

IsOperator(token, lexemes) ==
  token.kind \notin {String, Number, Identifier} /\ token.lexeme \in lexemes

RECURSIVE Derives(_, _, _, _)
Derives(ts, nt, i, j) ==
  IF i > j THEN FALSE
  ELSE IF nt = "primary"
  THEN \/ i = j /\ ts[i].kind \in {String, Number, "True", "False", "Null"}
       \/ i < j /\ ts[i].kind = LParen /\ ts[j].kind = RParen /\ Derives(ts, "equality", i + 1, j - 1)
  ELSE IF nt = "unary"
  THEN \/ IsOperator(ts[i], {"-", "!"}) /\ Derives(ts, "unary", i + 1, j)
       \/ Derives(ts, "primary", i, j)
  ELSE \/ Derives(ts, GrammarNext(nt), i, j)
       \/ \E k \in (i + 1)..(j - 1) :
            /\ IsOperator(ts[k], GrammarOps(nt))
            /\ Derives(ts, nt, i, k - 1)
            /\ Derives(ts, GrammarNext(nt), k + 1, j)

RECURSIVE GrammarTree(_, _, _, _)
GrammarTree(ts, nt, i, j) ==
  IF nt = "primary"
  THEN IF i = j THEN Primary(literalValue(ts[i]).value)
       ELSE Primary(NodeValue(GrammarTree(ts, "equality", i + 1, j - 1)))
  ELSE IF nt = "unary"
  THEN IF IsOperator(ts[i], {"-", "!"})
       THEN Unary(ts[i], GrammarTree(ts, "unary", i + 1, j))
       ELSE GrammarTree(ts, "primary", i, j)
  ELSE IF Derives(ts, GrammarNext(nt), i, j)
  THEN GrammarTree(ts, GrammarNext(nt), i, j)
  ELSE LET k == CHOOSE k \in (i + 1)..(j - 1) :
                  /\ IsOperator(ts[k], GrammarOps(nt))
                  /\ Derives(ts, nt, i, k - 1)
                  /\ Derives(ts, GrammarNext(nt), k + 1, j)
       IN  Binary(GrammarTree(ts, nt, i, k - 1), ts[k], GrammarTree(ts, GrammarNext(nt), k + 1, j))

\* The tokens handed to the parser, without the closing EOF when there is one.
Body ==
  IF p.tokens # <<>> /\ p.tokens[Len(p.tokens)].kind = EOF
  THEN SubSeq(p.tokens, 1, Len(p.tokens) - 1)
  ELSE p.tokens

WellFormed == Derives(Body, "equality", 1, Len(Body))

ParseDone == pc = "parser" /\ ctl.kind = "done"

AtGroupClose ==
  pc = "parser" /\ ctl.kind = "return" /\ frames # <<>> /\ Top.fn = "parsePrimary"

ClosedByRParen == InRange(p) /\ parserPeek(p).kind = RParen

C12_Step ==
  AtGroupClose =>
    IF ClosedByRParen
    THEN /\ ctl' = Return(Primary(AsAny(ctl.node)))
         /\ p' = [p EXCEPT !.current = p.current + 1]
    ELSE /\ ctl'.kind = "panic"
         /\ ctl'.msg = "unterminated group expression"

\* C12: when the inner expression of a group is not followed by ")" the
\* parser fails with "unterminated group expression" and returns no Primary
\* for the group; when ")" follows, that one token is consumed and the result
\* is the Primary that wraps the inner node.
C12_UnterminatedGroup == [][C12_Step]_vars

\* parsePrimary is entered on a token that starts no primary expression.
AtNoPrimary ==
  /\ pc = "parser" /\ ctl.kind = "call" /\ ctl.fn = "parsePrimary"
  /\ InRange(p)
  /\ parserPeek(p).kind \notin {LParen, String, Number, "True", "False", "Null"}

IsPrefix(s, t) == Len(s) <= Len(t) /\ SubSeq(t, 1, Len(s)) = s

C13_Step ==
  /\ AtNoPrimary =>
       /\ p'.errors = Append(p.errors, "Literal expected")
       /\ p'.current = p.current
       /\ ctl' = Return(NilNode)
       /\ frames' = frames
  /\ pc = "parser" => IsPrefix(p.errors, p'.errors)
  /\ (pc = "parser" /\ ctl'.kind = "done") =>
       /\ ctl'.errors = p.errors
       /\ ctl'.node = ctl.node

\* C13: on a token that cannot start a primary expression the parser does
\* not abort: it appends exactly one "Literal expected" to the end of its
\* error list, consumes no token and returns to its caller, which goes on
\* parsing; errors are only ever appended, and Parse returns the tree built
\* so far together with the whole list.
C13_LiteralExpected == [][C13_Step]_vars

\* "( * EOF" was parsed: two operands were missing before the group was
\* found open, and the tree came back with the three errors in that order.
C13_Witness ==
  /\ ParseDone
  /\ ctl.errors = <<"Literal expected", "Literal expected", "Unterminated group expression">>
  /\ ctl.node.type = "Primary"

EOFTerminated == p.tokens # <<>> /\ p.tokens[Len(p.tokens)].kind = EOF

\* C14: when Parse returns with an empty error list on an EOF-terminated
\* token sequence, the cursor stands on the EOF token: no token before it is
\* left unparsed.
C14_CursorOnEOF ==
  (ParseDone /\ EOFTerminated /\ ctl.errors = <<>>) =>
    /\ p.current = Len(p.tokens) - 1
    /\ parserPeek(p).kind = EOF

(***************************************************************************)
(* Helpers of the evaluator's properties.                                  *)
(***************************************************************************)
EvalDone == pc = "eval" /\ ctl.kind = "done" /\ ctl.fn = "Eval"
IsNumeric(value) == value.t \in {"int", "float64"}

\* The operand of a Unary has returned without error.
AtUnaryOperation == ReturnsTo("Unary.Eval", "operand") /\ ctl.err = ""

\* Both operands of a Binary have returned without error.
AtBinaryOperation == ReturnsTo("Binary.Eval", "right") /\ ctl.err = ""

C15_Step ==
  /\ Calls("Eval", "Unary") => ctl' = CallOn("Eval", ctl.node.node)
  /\ AtUnaryOperation =>
       LET op == Top.node.op.kind
           v == ctl.value
       IN  /\ ctl'.kind = "return"
           /\ IF op = Minus /\ v.t = "int"
              THEN ctl'.err = "" /\ ctl'.value = IntValue(0 - v.n)
              ELSE IF op = Minus /\ v.t = "float64"
              THEN /\ ctl'.err = ""
                   /\ ctl'.value.t = "float64"
                   /\ ctl'.value.n = 0 - v.n
                   /\ ctl'.value.d = IF v.n = 0 THEN 0 - v.d ELSE v.d
              ELSE IF op = Bang /\ v.t = "bool"
              THEN ctl'.err = "" /\ ctl'.value = BoolValue(~v.b)
              ELSE ctl'.err # ""

\* C15: Unary.Eval evaluates its operand first; "-" on a number gives the
\* negation in the same numeric type (an int stays an int, a float64 a
\* float64), "!" on a boolean gives its negation, and every other pairing of
\* operator and operand ("!" on a number, "-" on a boolean, either on a
\* string or on null) gives an error.
C15_UnaryEval == [][C15_Step]_vars

\* -1 on the int 1 was evaluated: the result is the int -1.
C15_Witness ==
  /\ EvalDone
  /\ ctl.node = Unary(OpToken(Minus), Primary(IntValue(1)))
  /\ ctl.value = IntValue(0 - 1)
  /\ ctl.err = ""

\* C16: whenever an Eval returns a non-nil error, the value returned with
\* it is nil.
C16_ErrorWithNilValue ==
  (pc = "eval" /\ ctl.kind \in {"return", "done"} /\ ctl.err # "") => ctl.value = NilValue

C17_Step ==
  (AtBinaryOperation /\ Top.node.op.kind \in ArithmeticKinds \cup ComparisonKinds) =>
    LET op == Top.node.op.kind
        left == Top.value
        right == ctl.value
    IN  /\ ctl'.kind = "return"
        /\ IF IsNumeric(left) /\ IsNumeric(right)
           THEN /\ ctl'.err = ""
                /\ ctl'.value.t = IF op \in ArithmeticKinds THEN "float64" ELSE "bool"
           ELSE IF ~IsNumeric(left)
           THEN ctl'.err = "left operator is not a number"
           ELSE ctl'.err = "right operator is not a number"

\* C17: for + - * / and > >= < <= Binary.Eval accepts every pair of numbers,
\* int or float64, and returns a float64 (arithmetic) or a boolean
\* (comparison) with no error; when an operand is not a number the error
\* names its side, the left one whenever the left operand is not a number.
C17_NumericOperands == [][C17_Step]_vars

\* Equality of two values as the language defines it: never across types,
\* by value within a type (a NaN, as in every float64 comparison, equals
\* nothing).
SameValue(left, right) ==
  IF left.t # right.t THEN FALSE
  ELSE IF left.t = "nil" THEN TRUE
  ELSE IF left.t = "string" THEN left.s = right.s
  ELSE IF left.t = "bool" THEN left.b = right.b
  ELSE IF left.t = "int" THEN left.n = right.n
  ELSE /\ ~(left.n = 0 /\ left.d = 0)
       /\ ~(right.n = 0 /\ right.d = 0)
       /\ IF left.d = 0 \/ right.d = 0 THEN left.d = right.d /\ left.n = right.n
          ELSE left.n * Abs(right.d) = right.n * Abs(left.d)

C18_Step ==
  (AtBinaryOperation /\ Top.node.op.kind \in EqualityKinds) =>
    /\ ctl'.kind = "return"
    /\ ctl'.err = ""
    /\ ctl'.value = BoolValue(IF Top.node.op.kind = DoubleEq
                              THEN SameValue(Top.value, ctl.value)
                              ELSE ~SameValue(Top.value, ctl.value))

\* C18: == and != coerce nothing: values of different dynamic types are
\* unequal (the int 1 and the float64 1.0 are), values of one type compare by
\* value (strings by case, null equals null), != is the negation of ==, and
\* no error is returned once both operands are evaluated.
C18_Equality == [][C18_Step]_vars

\* The int 1 was compared with the float64 1 and found unequal.
C18_Witness ==
  /\ EvalDone
  /\ ctl.node = Binary(Primary(IntValue(1)), OpToken(DoubleEq), Primary(FloatValue(1, 1)))
  /\ ctl.value = BoolValue(FALSE)
  /\ ctl.err = ""

\* The plain text of the literal values.
PlainValue(value) ==
  CASE value = IntValue(1) -> "1"
    [] value = IntValue(10) -> "10"
    [] value = FloatValue(0, 1) -> "0"
    [] value = FloatValue(1, 1) -> "1"
    [] value = FloatValue(2, 1) -> "2"
    [] value = FloatValue(3, 1) -> "3"
    [] value = FloatValue(5, 1) -> "5"
    [] value = FloatValue(12, 1) -> "12"
    [] value = FloatValue(1, 2) -> "0.5"
    [] value = BoolValue(TRUE) -> "true"
    [] value = BoolValue(FALSE) -> "false"
    [] value = StringValue("a") -> "a"
    [] value = StringValue("A") -> "A"

RECURSIVE Rendering(_)
Rendering(node) ==
  IF node.type = "Binary"
  THEN "(" \o Rendering(node.left) \o " " \o node.op.lexeme \o " " \o Rendering(node.right) \o ")"
  ELSE IF node.type = "Unary"
  THEN "(" \o node.op.lexeme \o Rendering(node.node) \o ")"
  ELSE IF node.value.t = "Node" THEN "(" \o Rendering(node.value.node) \o ")"
  ELSE IF node.value.t = "nil" THEN "null"
  ELSE PlainValue(node.value)

StringDone == pc = "eval" /\ ctl.kind = "done" /\ ctl.fn = "String"

\* C19: String renders a tree fully parenthesized: a Binary as
\* "(<left> <op lexeme> <right>)", a Unary as "(<op lexeme><operand>)", a
\* grouping Primary as its inner rendering in one more pair of parentheses,
\* the null literal as "null" and any other literal as its plain value.
C19_Rendering == StringDone => ctl.msg = Rendering(ctl.node)

\* 5 * 12 was rendered as "(5 * 12)".
C19_Witness ==
  /\ StringDone
  /\ ctl.node = Binary(Primary(FloatValue(5, 1)), OpToken(Star), Primary(FloatValue(12, 1)))
  /\ ctl.msg = "(5 * 12)"

C20_Step ==
  /\ Calls("Eval", "Binary") =>
       /\ ctl' = CallOn("Eval", ctl.node.left)
       /\ frames' = Append(frames, [Frame("Binary.Eval", "left") EXCEPT !.node = ctl.node])
  /\ (ReturnsTo("Binary.Eval", "left") /\ ctl.err # "") =>
       /\ ctl' = ReturnResult(Result(NilValue, ctl.err))
       /\ frames' = Pop
  /\ (pc = "eval" /\ frames' # <<>> /\ frames'[Len(frames')].fn = "Binary.Eval"
        /\ frames'[Len(frames')].at = "right" /\ ctl'.kind = "call") =>
       /\ ReturnsTo("Binary.Eval", "left")
       /\ ctl.err = ""
       /\ ctl' = CallOn("Eval", Top.node.right)

\* C20: Binary.Eval evaluates its left operand to the end before the right
\* one: the right operand is called only when the left one has returned, and
\* when the left one returns an error the right one is never called and that
\* error is what Binary.Eval returns.
C20_LeftBeforeRight == [][C20_Step]_vars

\* A sum whose left operand fails and whose right operand is a nil Node was
\* evaluated: the left error came back, the right operand was not touched.
C20_Witness ==
  /\ EvalDone
  /\ ctl.node = Binary(Unary(OpToken(Bang), Primary(IntValue(1))), OpToken(Plus), NilNode)
  /\ ctl.err = "cannot evaluate numeric sign invertion on unary expression"
  /\ ctl.value = NilValue

\* C21: on a token sequence whose last token is EOF the parser never reads
\* the token slice at an index >= len(tokens), also after error recovery and
\* with one or several unclosed "(": Parse ends by returning, not by an
\* index-out-of-range fault.
C21_CursorInRange ==
  (pc = "parser" /\ EOFTerminated) => ~(ctl.kind = "panic" /\ ctl.msg = IndexOutOfRange)

\* The nil nodes of a tree, the root included.
RECURSIVE MissingNodes(_)
MissingNodes(node) ==
  IF node.type = "nil" THEN 1
  ELSE IF node.type = "Binary" THEN MissingNodes(node.left) + MissingNodes(node.right)
  ELSE IF node.type = "Unary" THEN MissingNodes(node.node)
  ELSE IF node.value.t = "Node" THEN MissingNodes(node.value.node)
  ELSE 0

Occurrences(message, errors) ==
  Cardinality({ i \in 1..Len(errors) : errors[i] = message })

\* C22: a tree that Parse returns with an empty error list has no nil node
\* anywhere, so every operand of a Unary and of a Binary can be evaluated and
\* rendered; a nil node is in the tree only when "Literal expected" was
\* recorded, once at least for every nil node.
C22_NoMissingChild ==
  ParseDone =>
    /\ ctl.errors = <<>> => MissingNodes(ctl.node) = 0
    /\ MissingNodes(ctl.node) <= Occurrences("Literal expected", ctl.errors)

\* A product came back with an empty error list, and with both operands.
C22_Witness ==
  /\ ParseDone
  /\ ctl.errors = <<>>
  /\ ctl.node.type = "Binary"
  /\ ctl.node.left.type = "Primary"
  /\ ctl.node.right.type = "Primary"

====
